---- MODULE Spec2Model ----
(***************************************************************************)
(* The installer bot (Installer_Bot/bot.py, Installer_Bot/rundeck.py) as a *)
(* state machine.  One MyBot instance serves every turn; a turn that       *)
(* carries a card submission runs _handle_card_submission as a coroutine   *)
(* of the event loop, so turns interleave at the awaits of the handlers.   *)
(* The external systems (ServiceNow, Rundeck, the request database) answer *)
(* nondeterministically.                                                   *)
(*                                                                         *)
(* Every externally visible step of a handler (a call to ServiceNow, to    *)
(* Rundeck or to the database, a message or a card sent to the chat) is an *)
(* event.  A turn in flight is a record h of the position of its handler,  *)
(* the handler's locals and, in h.log, the events the handler has made, in *)
(* order.  calls[i] counts, for incident number i, the submissions, cards  *)
(* and calls that decide the state of the request, over all the handlers   *)
(* so far.                                                                 *)
(***************************************************************************)
EXTENDS Integers, Sequences, FiniteSets, Bags, TLC

\* Bounds of the model.
MaxRequests == 2        \* incident numbers ServiceNow hands out
MaxSubmissions == 4     \* card submissions that act on an incident
MaxTurns == 2           \* turns in flight at the same time

Incidents == 1..MaxRequests
NoIncident == 0         \* no incident number known (yet)

\* The events that are calls to the external systems, and the feedback cards.
TicketCalls == {"sn_create", "sn_in_progress", "sn_closed", "sn_cancelled"}
JobCalls == {"rd_trigger", "rd_poll"}
AuditCalls == {"log_request", "log_approved", "log_succeeded", "log_failed",
               "log_error", "log_rejected"}
FeedbackCards == {"card_feedback_success", "card_feedback_failed"}
\* The other events are the messages ("msg_...") and the approval card sent to
\* the chat, the submissions ("approve", "reject") and the execution id
\* received ("exec_id").

VARIABLES
    is_admin_mode,      \* MyBot.is_admin_mode
    pending_approval,   \* MyBot.pending_approval: the incident number stored, or NoIncident for {}
    turns,              \* the turns in flight: a bag of handler records
    calls,              \* per incident number: how often each tracked event happened for it
    created,            \* how many incidents ServiceNow has created
    submissions         \* how many card submissions have acted on an incident

vars == <<is_admin_mode, pending_approval, turns, calls, created, submissions>>

\* A handler that has just been entered.
Entered == [pc |-> "", action |-> "", incident_number |-> NoIncident,
            final_status |-> "", request_state |-> "", log |-> << >>]

Positions == {"create", "approve_update", "poll", "sleep", "final_update",
              "reject_update", "done"}

InFlight == BagToSet(turns)

Count(s, e) == Cardinality({k \in DOMAIN s : s[k] = e})

Has(s, e) == \E k \in DOMAIN s : s[k] = e

\* The place of the first e in s.
First(s, e) == CHOOSE k \in DOMAIN s : s[k] = e /\ \A j \in 1..(k-1) : s[j] # e

\* e1 and e2 occur in s, the first e1 before the first e2.
Before(s, e1, e2) == Has(s, e1) /\ Has(s, e2) /\ First(s, e1) < First(s, e2)

\* The events counted per incident number.
Tracked == FeedbackCards \cup
           {"sn_create", "card_approval", "approve", "reject", "rejected",
            "rd_trigger", "exec_id", "log_feedback", "msg_skip"}

\* The events evs happened for incident i.
Record(i, evs) ==
    IF i = NoIncident THEN calls
    ELSE [calls EXCEPT ![i] = [e \in Tracked |-> @[e] + Count(evs, e)]]

(***************************************************************************)
(* The lifecycle state of a request, read off what has happened for its    *)
(* incident number.                                                        *)
(***************************************************************************)
ApprovalCardSent(i) == calls[i]["card_approval"] > 0

FeedbackCardSent(i) == \E c \in FeedbackCards : calls[i][c] > 0

\* The approval card is out and neither approve nor reject has been submitted.
PendingApproval(i) ==
    ApprovalCardSent(i) /\ calls[i]["approve"] = 0 /\ calls[i]["reject"] = 0

\* A reject submitted while the request was pending approval has been carried out.
Rejected(i) == calls[i]["rejected"] > 0

\* Feedback has been submitted or skipped.
Closed(i) == calls[i]["log_feedback"] > 0 \/ calls[i]["msg_skip"] > 0

Terminal(i) == Rejected(i) \/ Closed(i)

\* The state of the request a card submission meets.
RequestState(i) ==
    IF Closed(i) THEN "Closed"
    ELSE IF Rejected(i) THEN "Rejected"
    ELSE IF PendingApproval(i) THEN "PendingApproval"
    ELSE "Decided"

TypeOK ==
    /\ is_admin_mode \in BOOLEAN
    /\ pending_approval \in Incidents \cup {NoIncident}
    /\ created \in 0..MaxRequests
    /\ submissions \in 0..MaxSubmissions
    /\ BagCardinality(turns) <= MaxTurns
    /\ \A h \in InFlight : h.pc \in Positions

Init ==
    /\ is_admin_mode = FALSE
    /\ pending_approval = NoIncident
    /\ turns = EmptyBag
    /\ calls = [i \in Incidents |-> [e \in Tracked |-> 0]]
    /\ created = 0
    /\ submissions = 0

\* A handler has returned and its turn is ending.
Busy == \E h \in InFlight : h.pc = "done"

\* A turn is free to take a card submission.
Free == ~Busy /\ BagCardinality(turns) < MaxTurns

\* An approval or feedback card is submitted.  (An install submission counts
\* when its incident is created; one that creates none leaves no trace.)
CanSubmit == Free /\ submissions < MaxSubmissions

\* A turn begins with its handler at h.
Enter(h) == turns' = turns (+) SetToBag({h})

\* The handler at h goes on to nh.
Advance(h, nh) == turns' = (turns (-) SetToBag({h})) (+) SetToBag({nh})

\* The handler at h makes the events evs and comes to position pc.
To(h, pc, evs) == [h EXCEPT !.pc = pc, !.log = @ \o evs]

\* An except clause that swallows the exception without a word.
OnException_Silent == << >>

\* bot.py 357-361: the except clause of _handle_card_submission.
OnException == <<"msg_error">>

\* bot.py 363-366: _switch_to_admin_mode stores the approval data.
SwitchToAdminMode(i) ==
    /\ is_admin_mode' = TRUE
    /\ pending_approval' = i

\* A reset that forgets the stored approval data.
ResetAdminMode_FlagOnly ==
    /\ is_admin_mode' = FALSE
    /\ pending_approval' = pending_approval

\* bot.py 522-525: _reset_admin_mode.
ResetAdminMode ==
    /\ is_admin_mode' = FALSE
    /\ pending_approval' = NoIncident

\* bot.py 475-480: _send_feedback_card.
SendFeedbackCard(installation_status) ==
    IF installation_status = "success" THEN <<"card_feedback_success">>
    ELSE <<"card_feedback_failed">>

(***************************************************************************)
(* action == "install" (bot.py 228-291).                                   *)
(***************************************************************************)
\* The submission up to the await of the ServiceNow create call.  prepared is
\* whether get_software_info and extract_incident_data returned (they raise
\* otherwise).
\* bot.py 229-230: what the card carried: "install" when it names both an
\* application and a version, "install_incomplete" when either is lacking.
Submitted(app, version) ==
    <<IF app = "" \/ version = "" THEN "install_incomplete" ELSE "install">>

\* A handler that looks at the application name only.
InstallSubmit_AppOnly(app, version, prepared) ==
    /\ Free
    /\ LET h == To([Entered EXCEPT !.action = "install"], "", Submitted(app, version)) IN
       IF app # ""
       THEN IF prepared
            THEN Enter(To(h, "create", <<"msg_creating", "sn_create">>))
            ELSE Enter(To(h, "done", <<"msg_creating">> \o OnException))
       ELSE Enter(To(h, "done", <<"msg_select_version">>))
    /\ UNCHANGED <<is_admin_mode, pending_approval, calls, created, submissions>>

InstallSubmit(app, version, prepared) ==
    /\ Free
    /\ LET h == To([Entered EXCEPT !.action = "install"], "", Submitted(app, version)) IN
       IF app # "" /\ version # ""
       THEN IF prepared
            THEN Enter(To(h, "create", <<"msg_creating", "sn_create">>))
            ELSE Enter(To(h, "done", <<"msg_creating">> \o OnException))
       ELSE Enter(To(h, "done", <<"msg_select_version">>))
    /\ UNCHANGED <<is_admin_mode, pending_approval, calls, created, submissions>>

\* A failed create that is passed over in silence.
InstallCreateFailed_Silent(h) ==
    /\ h.pc = "create"
    /\ ~Busy
    /\ Advance(h, To(h, "done", << >>))
    /\ UNCHANGED <<is_admin_mode, pending_approval, calls, created, submissions>>

\* create_incident_direct returned None (bot.py 183-185, 287-289).
InstallCreateFailed(h) ==
    /\ h.pc = "create"
    /\ ~Busy
    /\ Advance(h, To(h, "done", <<"msg_create_failed">>))
    /\ UNCHANGED <<is_admin_mode, pending_approval, calls, created, submissions>>

\* The incident was created, but the response carries no number (bot.py 247-251, 284-285).
InstallCreatedUnknown(h) ==
    /\ h.pc = "create"
    /\ ~Busy
    /\ Advance(h, To(h, "done", <<"msg_created">>))
    /\ UNCHANGED <<is_admin_mode, pending_approval, calls, created, submissions>>

\* bot.py 253-285: what follows a created incident with a known number; the
\* approval card is sent only when the request was logged.
CreatedEvents(log_success) ==
    IF log_success THEN <<"msg_created", "log_request", "card_approval">>
    ELSE <<"msg_created", "log_request">>

\* The incident was created with a number (bot.py 243-283): the create call
\* awaited since InstallSubmit is now known to be for incident_number.
InstallCreated(h, log_success) ==
    /\ h.pc = "create"
    /\ ~Busy
    /\ created < MaxRequests
    /\ submissions < MaxSubmissions
    /\ created' = created + 1
    /\ submissions' = submissions + 1
    /\ LET incident_number == created + 1 IN
       /\ Advance(h, To([h EXCEPT !.incident_number = incident_number], "done",
                        CreatedEvents(log_success)))
       /\ calls' = Record(incident_number, <<"sn_create">> \o CreatedEvents(log_success))
       /\ IF log_success
          THEN SwitchToAdminMode(incident_number)
          ELSE UNCHANGED <<is_admin_mode, pending_approval>>

(***************************************************************************)
(* action == "admin_approve" (bot.py 293-294, 376-444).                    *)
(***************************************************************************)
\* bot.py 378-383: the card's data is read and the update to "in progress" is
\* awaited.  No condition on the request guards the handler.
ApproveCalls == <<"sn_in_progress">>

ApproveSubmit(i) ==
    /\ CanSubmit
    /\ ApprovalCardSent(i)
    /\ submissions' = submissions + 1
    /\ LET evs == <<"approve">> \o ApproveCalls IN
       /\ Enter(To([Entered EXCEPT !.action = "admin_approve", !.incident_number = i,
                                   !.request_state = RequestState(i)],
                   "approve_update", evs))
       /\ calls' = Record(i, evs)
    /\ UNCHANGED <<is_admin_mode, pending_approval, created>>

\* bot.py 384-402: the result of the update is reported, the approval announced
\* and logged.
ApprovedEvents(updated) ==
    <<IF updated THEN "msg_sn_updated" ELSE "msg_sn_update_failed",
      "msg_approved", "log_approved">>

\* A trigger that is tried once more before the handler gives up.
TriggerFailedEvents_Retried ==
    <<"rd_trigger", "msg_trigger_failed">> \o SendFeedbackCard("failed")

\* bot.py 406-410: run_rundeck_job returned None.
TriggerFailedEvents == <<"msg_trigger_failed">> \o SendFeedbackCard("failed")

\* A handler that triggers the job before it logs the approval.
ApproveTrigger_TriggerFirst(h, updated, trigger) ==
    /\ h.pc = "approve_update"
    /\ ~Busy
    /\ LET evs == <<"rd_trigger">> \o ApprovedEvents(updated) \o
                  CASE trigger = "ok" -> <<"exec_id", "msg_job_started">>
                    [] trigger = "refused" -> TriggerFailedEvents
                    [] trigger = "raise" -> OnException IN
       /\ Advance(h, To(h, IF trigger = "ok" THEN "poll" ELSE "done", evs))
       /\ calls' = Record(h.incident_number, evs)
    /\ UNCHANGED <<is_admin_mode, pending_approval, created, submissions>>

\* bot.py 404-412 with rundeck.py 9-28: trigger is what becomes of the POST:
\* "ok" (200, an execution id), "refused" (another status code, None) or
\* "raise" (requests.post raises).
ApproveTrigger(h, updated, trigger) ==
    /\ h.pc = "approve_update"
    /\ ~Busy
    /\ LET evs == ApprovedEvents(updated) \o <<"rd_trigger">> \o
                  CASE trigger = "ok" -> <<"exec_id", "msg_job_started">>
                    [] trigger = "refused" -> TriggerFailedEvents
                    [] trigger = "raise" -> OnException IN
       /\ Advance(h, To(h, IF trigger = "ok" THEN "poll" ELSE "done", evs))
       /\ calls' = Record(h.incident_number, evs)
    /\ UNCHANGED <<is_admin_mode, pending_approval, created, submissions>>

\* rundeck.py 39-48: one round of the loop of check_job_status on a response
\* with status code 200 and the given status: the value returned, or
\* "" when the loop sleeps and goes round again.
CheckJobStatus(status) ==
    IF status \in {"succeeded", "failed", "aborted"} THEN status ELSE ""

\* The status queries of one handler follow each other; they are recorded once.
PollEvents(h) == IF Has(h.log, "rd_poll") THEN << >> ELSE <<"rd_poll">>

\* An aborted job whose ticket is closed like that of a finished one.
FinalUpdate_ClosesAborted(final_status) ==
    IF final_status \in {"succeeded", "aborted"} THEN <<"sn_closed">>
    ELSE IF final_status = "failed" THEN <<"sn_cancelled">>
    ELSE << >>

\* bot.py 417-435: the ticket update chosen by the final status.
FinalUpdate(final_status) ==
    IF final_status = "succeeded" THEN <<"sn_closed">>
    ELSE IF final_status \in {"failed", "aborted"} THEN <<"sn_cancelled">>
    ELSE << >>

\* The feedback card of an aborted job taken for that of a finished one.
FinalEvents_AbortedAsSuccess(final_status) ==
    IF final_status \in {"succeeded", "aborted"}
    THEN <<"msg_succeeded", "log_succeeded">> \o SendFeedbackCard("success")
    ELSE IF final_status = "failed"
    THEN <<"msg_failed", "log_failed">> \o SendFeedbackCard("failed")
    ELSE <<"msg_undetermined", "log_error">> \o SendFeedbackCard("failed")

\* bot.py 418-441: what follows the ticket update: the outcome message, the
\* log of the result and the feedback card.
FinalEvents(final_status) ==
    IF final_status = "succeeded"
    THEN <<"msg_succeeded", "log_succeeded">> \o SendFeedbackCard("success")
    ELSE IF final_status \in {"failed", "aborted"}
    THEN <<"msg_failed", "log_failed">> \o SendFeedbackCard("failed")
    ELSE <<"msg_undetermined", "log_error">> \o SendFeedbackCard("failed")

\* A loop that reports every round to the chat.
PollRunningEvents_Noisy(h) == PollEvents(h) \o <<"msg_undetermined">>

\* rundeck.py 40-45, 48: a status query answered with status code 200 and a
\* status that is not terminal: the loop goes to sleep.
PollRunningEvents(h) == PollEvents(h)

ApprovePollRunning(h, status) ==
    /\ h.pc = "poll"
    /\ ~Busy
    /\ CheckJobStatus(status) = ""
    /\ Advance(h, To(h, "sleep", PollRunningEvents(h)))
    /\ calls' = Record(h.incident_number, PollRunningEvents(h))
    /\ UNCHANGED <<is_admin_mode, pending_approval, created, submissions>>

\* rundeck.py 48: asyncio.sleep(5) is over and the loop goes round.
ApproveWake(h) ==
    /\ h.pc = "sleep"
    /\ ~Busy
    /\ Advance(h, To(h, "poll", << >>))
    /\ UNCHANGED <<is_admin_mode, pending_approval, calls, created, submissions>>

\* rundeck.py 40-45, bot.py 415-426: a status query answered with status code
\* 200 and a terminal status: the loop ends and the ticket update is awaited.
ApprovePollFinal(h, status) ==
    /\ h.pc = "poll"
    /\ ~Busy
    /\ CheckJobStatus(status) # ""
    /\ LET final_status == CheckJobStatus(status)
           evs == PollEvents(h) \o FinalUpdate(final_status) IN
       /\ Advance(h, To([h EXCEPT !.final_status = final_status], "final_update", evs))
       /\ calls' = Record(h.incident_number, evs)
    /\ UNCHANGED <<is_admin_mode, pending_approval, created, submissions>>

\* rundeck.py 46-47, bot.py 432-444: a status query answered with another
\* status code: check_job_status returns "error".
ApprovePollError(h) ==
    /\ h.pc = "poll"
    /\ ~Busy
    /\ LET evs == PollEvents(h) \o FinalUpdate("error") \o FinalEvents("error") IN
       /\ Advance(h, To([h EXCEPT !.final_status = "error"], "done", evs))
       /\ calls' = Record(h.incident_number, evs)
    /\ ResetAdminMode
    /\ UNCHANGED <<created, submissions>>

\* rundeck.py 40: requests.get raises; the exception leaves the handler.
ApprovePollRaise(h) ==
    /\ h.pc = "poll"
    /\ ~Busy
    /\ LET evs == PollEvents(h) \o OnException IN
       /\ Advance(h, To(h, "done", evs))
       /\ calls' = Record(h.incident_number, evs)
    /\ UNCHANGED <<is_admin_mode, pending_approval, created, submissions>>

\* A handler that gives up when the final ticket update has failed.
ApproveFinish_Strict(h, updated) ==
    /\ h.pc = "final_update"
    /\ ~Busy
    /\ LET evs == IF updated THEN FinalEvents(h.final_status) ELSE OnException IN
       /\ Advance(h, To(h, "done", evs))
       /\ calls' = Record(h.incident_number, evs)
    /\ ResetAdminMode
    /\ UNCHANGED <<created, submissions>>

\* bot.py 419-444: the ticket update has returned; updated is whether it
\* succeeded, which the handler does not read: it goes on alike.
ApproveFinish(h, updated) ==
    /\ h.pc = "final_update"
    /\ ~Busy
    /\ LET evs == FinalEvents(h.final_status) IN
       /\ Advance(h, To(h, "done", evs))
       /\ calls' = Record(h.incident_number, evs)
    /\ ResetAdminMode
    /\ UNCHANGED <<created, submissions>>

(***************************************************************************)
(* action == "admin_reject" (bot.py 296-297, 446-472).                     *)
(***************************************************************************)
RejectSubmit(i) ==
    /\ CanSubmit
    /\ ApprovalCardSent(i)
    /\ submissions' = submissions + 1
    /\ LET evs == <<"reject", "sn_cancelled">> IN
       /\ Enter(To([Entered EXCEPT !.action = "admin_reject", !.incident_number = i,
                                   !.request_state = RequestState(i)],
                   "reject_update", evs))
       /\ calls' = Record(i, evs)
    /\ UNCHANGED <<is_admin_mode, pending_approval, created>>

\* bot.py 455-470
RejectedEvents(updated) ==
    <<IF updated THEN "msg_sn_updated" ELSE "msg_sn_update_failed",
      "msg_rejected", "log_rejected">>

RejectFinish(h, updated) ==
    /\ h.pc = "reject_update"
    /\ ~Busy
    /\ Advance(h, To(h, "done", RejectedEvents(updated)))
    /\ calls' = Record(h.incident_number,
                       IF h.request_state = "PendingApproval" THEN <<"rejected">> ELSE << >>)
    /\ ResetAdminMode
    /\ UNCHANGED <<created, submissions>>

(***************************************************************************)
(* action == "submit_feedback" / "skip_feedback" (bot.py 299-303, 482-520).*)
(***************************************************************************)
FeedbackSubmit(i, feedback_logged) ==
    /\ CanSubmit
    /\ FeedbackCardSent(i)
    /\ submissions' = submissions + 1
    /\ LET evs == <<"log_feedback",
                    IF feedback_logged THEN "msg_thanks" ELSE "msg_feedback_issue">> IN
       /\ Enter(To([Entered EXCEPT !.action = "submit_feedback", !.incident_number = i,
                                   !.request_state = RequestState(i)],
                   "done", evs))
       /\ calls' = Record(i, evs)
    /\ UNCHANGED <<is_admin_mode, pending_approval, created>>

SkipFeedback(i) ==
    /\ CanSubmit
    /\ FeedbackCardSent(i)
    /\ submissions' = submissions + 1
    /\ Enter(To([Entered EXCEPT !.action = "skip_feedback", !.incident_number = i,
                                !.request_state = RequestState(i)],
                "done", <<"msg_skip">>))
    /\ calls' = Record(i, <<"msg_skip">>)
    /\ UNCHANGED <<is_admin_mode, pending_approval, created>>

(***************************************************************************)
(* bot.py 42-44: _handle_card_submission has returned and the turn ends.   *)
(* No await lies between the handler's last step and the end of the turn,  *)
(* so no other turn runs in between (Busy).                                *)
(***************************************************************************)
TurnEnd(h) ==
    /\ h.pc = "done"
    /\ turns' = turns (-) SetToBag({h})
    /\ UNCHANGED <<is_admin_mode, pending_approval, calls, created, submissions>>

Next ==
    \/ \E app \in {"", "zoom"}, version \in {"", "5.0"}, prepared \in BOOLEAN :
          InstallSubmit(app, version, prepared)
    \/ \E i \in Incidents : ApproveSubmit(i)
    \/ \E i \in Incidents : RejectSubmit(i)
    \/ \E i \in Incidents, feedback_logged \in BOOLEAN : FeedbackSubmit(i, feedback_logged)
    \/ \E i \in Incidents : SkipFeedback(i)
    \/ \E h \in InFlight : InstallCreateFailed(h)
    \/ \E h \in InFlight : InstallCreatedUnknown(h)
    \/ \E h \in InFlight, log_success \in BOOLEAN : InstallCreated(h, log_success)
    \/ \E h \in InFlight, updated \in BOOLEAN, trigger \in {"ok", "refused", "raise"} :
          ApproveTrigger(h, updated, trigger)
    \/ \E h \in InFlight, status \in {"running", "succeeded", "failed", "aborted"} :
          ApprovePollRunning(h, status)
    \/ \E h \in InFlight, status \in {"running", "succeeded", "failed", "aborted"} :
          ApprovePollFinal(h, status)
    \/ \E h \in InFlight : ApproveWake(h)
    \/ \E h \in InFlight : ApprovePollError(h)
    \/ \E h \in InFlight : ApprovePollRaise(h)
    \/ \E h \in InFlight, updated \in BOOLEAN : ApproveFinish(h, updated)
    \/ \E h \in InFlight, updated \in BOOLEAN : RejectFinish(h, updated)
    \/ \E h \in InFlight : TurnEnd(h)

Spec == Init /\ [][Next]_vars

(***************************************************************************)
(* The event loop resumes every handler that can go on; whether Rundeck    *)
(* ever reports a terminal status is up to Rundeck.                        *)
(***************************************************************************)
Continue ==
    \E h \in InFlight :
        \/ InstallCreateFailed(h)
        \/ InstallCreatedUnknown(h)
        \/ \E log_success \in BOOLEAN : InstallCreated(h, log_success)
        \/ \E updated \in BOOLEAN, trigger \in {"ok", "refused", "raise"} :
              ApproveTrigger(h, updated, trigger)
        \/ \E status \in {"running", "succeeded", "failed", "aborted"} :
              \/ ApprovePollRunning(h, status)
              \/ ApprovePollFinal(h, status)
        \/ ApproveWake(h)
        \/ ApprovePollError(h)
        \/ ApprovePollRaise(h)
        \/ \E updated \in BOOLEAN : ApproveFinish(h, updated)
        \/ \E updated \in BOOLEAN : RejectFinish(h, updated)
        \/ TurnEnd(h)

FairSpec == Spec /\ WF_vars(Continue)

(***************************************************************************)
(* The claims.                                                             *)
(***************************************************************************)
ExternalCalls == TicketCalls \cup JobCalls \cup AuditCalls

Makes(h, evs) == \E k \in DOMAIN h.log : h.log[k] \in evs

Approving(h) == h.action = "admin_approve"

\* The job trigger of the handler at h has failed.
TriggerFailed(h) == Has(h.log, "rd_trigger") /\ ~Has(h.log, "exec_id")

\* C1: an approve submitted for a request that is not pending approval makes
\* no external call (no ticket update, no audit write, no job trigger, no
\* status poll).
C1_ApproveNotPendingMakesNoCall ==
    \A h \in InFlight :
        Approving(h) /\ h.request_state # "PendingApproval" => ~Makes(h, ExternalCalls)

\* C2: over any sequence of card submissions the job is triggered at most once
\* per request and the execution reference is set at most once.
C2_TriggeredAtMostOnce ==
    \A i \in Incidents : calls[i]["rd_trigger"] <= 1 /\ calls[i]["exec_id"] <= 1

\* C3: an operation that begins on a request in a terminal state (rejected, or
\* closed after feedback) makes no ticketing call and no job-executor call.
C3_NoCallOnceTerminal ==
    \A h \in InFlight :
        h.request_state \in {"Rejected", "Closed"} => ~Makes(h, TicketCalls \cup JobCalls)

\* C4: the status-polling loop of a running job always terminates.
Polling == \E h \in InFlight : h.pc \in {"poll", "sleep"}

C4_PollingTerminates == Polling ~> ~Polling

\* C5: a reject of a request pending approval sets the ticket to cancelled and
\* emits the rejection notification, and the request ends as Rejected: no job
\* trigger is ever attempted for it afterwards and no feedback card is ever
\* sent for it.
C5_RejectedIsFinal ==
    \A h \in InFlight :
        /\ h.action = "admin_reject" /\ h.request_state = "PendingApproval" /\ h.pc = "done" =>
              Before(h.log, "sn_cancelled", "msg_rejected")
        /\ h.request_state = "Rejected" => ~Makes(h, {"rd_trigger"} \cup FeedbackCards)

\* C6: when the job trigger fails during approve, the ticket is set to
\* cancelled before the approve operation returns.
C6_TriggerFailureCancelsTicket ==
    \A h \in InFlight :
        Approving(h) /\ h.pc = "done" /\ TriggerFailed(h) => Has(h.log, "sn_cancelled")

\* C7: when the job trigger fails during approve no feedback card is sent; a
\* feedback card follows only a job that ran and ended succeeded or failed.
C7_FeedbackOnlyAfterJobEnded ==
    \A h \in InFlight :
        Approving(h) /\ Makes(h, FeedbackCards) =>
            /\ ~TriggerFailed(h)
            /\ h.final_status \in {"succeeded", "failed", "aborted"}

\* C8: a status poll that fails (the query raises or is answered with a
\* non-success response) changes nothing: the handler that has seen no
\* terminal status is still polling and has recorded no outcome and sent no
\* feedback card.
C8_PollErrorKeepsRunning ==
    \A h \in InFlight :
        Has(h.log, "rd_poll") /\ h.final_status \notin {"succeeded", "failed", "aborted"} =>
            /\ h.pc \in {"poll", "sleep"}
            /\ ~Makes(h, AuditCalls \ {"log_approved"})
            /\ ~Makes(h, FeedbackCards)

\* C9: while the executor reports a running status, polling changes nothing:
\* however often the handler has polled, since the job started it has made no
\* ticket update, written no audit record and sent no notification and no
\* feedback card; its only events are the status queries.
C9_RunningPollsChangeNothing ==
    \A h \in InFlight :
        h.pc \in {"poll", "sleep"} =>
            /\ h.final_status = ""
            /\ Has(h.log, "msg_job_started")
            /\ LET started == First(h.log, "msg_job_started") IN
                  \A k \in (started + 1)..Len(h.log) : h.log[k] = "rd_poll"

\* A handler that has polled, slept and woken, and is about to poll again.
C9_Witness ==
    \E h \in InFlight : h.pc = "poll" /\ Has(h.log, "rd_poll")

\* C10: the terminal job status determines the outcome: succeeded closes the
\* ticket and yields a feedback card with status success; failed or aborted
\* cancels the ticket and yields a feedback card with status failed; the
\* ticket update and the outcome notification come before the feedback card.
Outcome(h, update, notification, card) ==
    /\ Has(h.log, update)
    /\ \A e \in (TicketCalls \ {"sn_in_progress", update}) \cup (FeedbackCards \ {card}) :
          ~Has(h.log, e)
    /\ h.pc = "done" => Has(h.log, card)
    /\ Has(h.log, card) => Before(h.log, update, card) /\ Before(h.log, notification, card)

C10_StatusDeterminesOutcome ==
    \A h \in InFlight :
        /\ h.final_status = "succeeded" =>
              Outcome(h, "sn_closed", "msg_succeeded", "card_feedback_success")
        /\ h.final_status \in {"failed", "aborted"} =>
              Outcome(h, "sn_cancelled", "msg_failed", "card_feedback_failed")

\* An approve handler has returned after an aborted job, another after a
\* succeeded one.
C10_Witness ==
    /\ \E h \in InFlight : h.pc = "done" /\ h.final_status = "aborted"
    /\ \E i \in Incidents : calls[i]["card_feedback_success"] > 0

Installing(h) == h.action = "install"

\* The create call of the install handler at h has returned: created with a
\* known number, created with an unknown number, or failed (None).
CreateSucceeded(h) == Installing(h) /\ Has(h.log, "msg_created")

CreateFailed(h) ==
    Installing(h) /\ h.pc = "done" /\ Has(h.log, "sn_create") /\ ~Has(h.log, "msg_created")

AuditCount(h) == Cardinality({k \in DOMAIN h.log : h.log[k] \in AuditCalls})

\* C11: whenever the ticket create call of an install submission succeeds, the
\* approval card carrying the incident number has been sent (the request is
\* pending approval) when the operation returns.
C11_CreatedIsPendingApproval ==
    \A h \in InFlight :
        CreateSucceeded(h) /\ h.pc = "done" =>
            h.incident_number # NoIncident /\ Has(h.log, "card_approval")

\* C12: when the ticket create call of an install submission fails, a failure
\* notification is sent to the user, admin mode is not entered (no approval
\* card is sent), and no audit write, ticket update or job trigger is made.
C12_CreateFailureOnlyNotifies ==
    \A h \in InFlight :
        CreateFailed(h) =>
            /\ Has(h.log, "msg_create_failed")
            /\ h.incident_number = NoIncident
            /\ ~Makes(h, {"card_approval", "rd_trigger"} \cup AuditCalls
                         \cup (TicketCalls \ {"sn_create"}))
            /\ Count(h.log, "sn_create") = 1

C12_Witness == \E h \in InFlight : CreateFailed(h)

\* C13: ticket creation is idempotent per request: only the install submission
\* creates a ticket, and the install card (the model has one, for zoom 5.0)
\* submitted again creates no second ticket.
C13_OneTicketPerInstallCard ==
    /\ \A h \in InFlight : Has(h.log, "sn_create") => Installing(h)
    /\ created <= 1

\* C14: a failed audit-log write never blocks the transition that triggered
\* it: the request whose new-request record was passed to the log is pending
\* approval, with its approval card sent, whatever the log returned.
C14_LogFailureDoesNotBlock ==
    \A h \in InFlight :
        Installing(h) /\ h.pc = "done" /\ Has(h.log, "log_request") =>
            Has(h.log, "card_approval")

\* C15: every lifecycle transition (ticket created, ticket creation failed,
\* approved, rejected, trigger failed, job succeeded, job failed) results in
\* exactly one audit record before the operation that caused it returns.
Transitions(h) ==
    IF Installing(h)
    THEN IF Has(h.log, "sn_create") /\ ~Has(h.log, "msg_error") THEN 1 ELSE 0
    ELSE IF Approving(h)
    THEN 1 + (IF TriggerFailed(h) \/ h.final_status \in {"succeeded", "failed", "aborted"}
              THEN 1 ELSE 0)
    ELSE IF h.action = "admin_reject" THEN 1
    ELSE 0

C15_OneAuditRecordPerTransition ==
    \A h \in InFlight :
        h.pc = "done" /\ h.action \in {"install", "admin_approve", "admin_reject"} =>
            AuditCount(h) = Transitions(h)

\* C16: ticket state updates are best-effort mirrors: after a failed update to
\* in progress the approval is still recorded and the job triggered; after a
\* failed update to cancelled the rejection is still notified and recorded;
\* and whatever the closing or cancelling update returned after the job ended,
\* the outcome is logged and the feedback card sent.
C16_UpdateFailureDoesNotBlock ==
    \A h \in InFlight :
        /\ Approving(h) /\ Has(h.log, "msg_sn_update_failed") =>
              Has(h.log, "log_approved") /\ Has(h.log, "rd_trigger")
        /\ h.action = "admin_reject" /\ Has(h.log, "msg_sn_update_failed") =>
              Has(h.log, "msg_rejected") /\ Has(h.log, "log_rejected")
        /\ Approving(h) /\ h.pc = "done"
              /\ h.final_status \in {"succeeded", "failed", "aborted"} =>
                  /\ Makes(h, {"log_succeeded", "log_failed"})
                  /\ Makes(h, FeedbackCards)

\* An approve whose update to in progress failed has returned after its job
\* ended and its final ticket update was made.
C16_Witness ==
    \E h \in InFlight :
        /\ Approving(h) /\ h.pc = "done"
        /\ Has(h.log, "msg_sn_update_failed") /\ Has(h.log, "sn_cancelled")

\* C17: at most one operation is in flight per request: while an approve is
\* suspended (awaiting a ticket update or sleeping between status polls) no
\* other operation on the same request has begun.
C17_OneOperationPerRequest ==
    \A h \in InFlight :
        Approving(h) /\ h.pc \in {"approve_update", "sleep", "final_update"} =>
            /\ turns[h] = 1
            /\ \A g \in InFlight \ {h} : g.incident_number # h.incident_number

\* C18: operations on different requests share no mutable state: nothing done
\* for another request changes the approval data recorded for a request, so
\* as long as a request is pending approval (its install has returned, no
\* approve or reject submitted) the bot holds its data and is in admin mode.
C18_PendingDataKept ==
    \A i \in Incidents :
        PendingApproval(i) /\ ~Busy => is_admin_mode /\ pending_approval = i

\* C19: feedback is accepted only while the request awaits feedback and is
\* recorded at most once: a submission that meets a request already closed
\* (feedback given or skipped) records nothing.
C19_FeedbackRecordedOnce ==
    /\ \A h \in InFlight :
          h.action = "submit_feedback" /\ h.request_state = "Closed" =>
              ~Has(h.log, "log_feedback")
    /\ \A i \in Incidents : calls[i]["log_feedback"] <= 1

\* C20: a request has a known ticket reference if and only if it has come to
\* pending approval or beyond: the approval card is issued and the approval
\* data stored only with a real incident number, every approve, reject and
\* feedback submission carries the number of an incident whose approval card
\* was sent, and every incident created with a known number has its card.
C20_TicketRefIffPendingOrBeyond ==
    /\ pending_approval # NoIncident => pending_approval \in 1..created
    /\ \A h \in InFlight :
          /\ Has(h.log, "card_approval") => h.incident_number \in 1..created
          /\ h.action \in {"admin_approve", "admin_reject", "submit_feedback", "skip_feedback"} =>
                h.incident_number \in 1..created /\ ApprovalCardSent(h.incident_number)
    /\ \A i \in Incidents :
          /\ ApprovalCardSent(i) => i \in 1..created
          /\ i \in 1..created /\ ~Busy => ApprovalCardSent(i)

\* C21: create and trigger calls are never retried: one install submission
\* makes at most one ticket-create call and one approve operation at most one
\* job-trigger call, whether the call succeeds or fails.
C21_NoRetry ==
    \A h \in InFlight :
        /\ Installing(h) => Count(h.log, "sn_create") <= 1
        /\ Approving(h) => Count(h.log, "rd_trigger") <= 1

\* An approve has returned after its one trigger call was refused.
C21_Witness ==
    \E h \in InFlight :
        /\ Approving(h) /\ h.pc = "done"
        /\ Has(h.log, "msg_trigger_failed") /\ Count(h.log, "rd_trigger") = 1

\* C22: every failure of the job trigger, a non-success response or a raised
\* transport error alike, is reported to the user as a trigger failure with
\* the feedback card of a failed installation, and no status poll is made.
C22_TriggerFailureReported ==
    \A h \in InFlight :
        Approving(h) /\ h.pc = "done" /\ TriggerFailed(h) =>
            /\ Has(h.log, "msg_trigger_failed")
            /\ Has(h.log, "card_feedback_failed")
            /\ ~Has(h.log, "rd_poll")

Last(s) == s[Len(s)]

\* The steps of an approve whose order the handler fixes, and the orders in
\* which a handler that runs to its end makes them.
IsApproveStep(e) ==
    e \in {"sn_in_progress", "log_approved", "rd_trigger", "exec_id", "rd_poll",
           "sn_closed", "sn_cancelled", "log_succeeded", "log_failed", "log_error"}
          \cup FeedbackCards

ApproveOrders ==
    LET triggered == <<"sn_in_progress", "log_approved", "rd_trigger">>
        polled == triggered \o <<"exec_id", "rd_poll">> IN
    { triggered \o <<"card_feedback_failed">>,
      polled \o <<"sn_closed", "log_succeeded", "card_feedback_success">>,
      polled \o <<"sn_cancelled", "log_failed", "card_feedback_failed">>,
      polled \o <<"log_error", "card_feedback_failed">> }

IsPrefix(s, t) == Len(s) <= Len(t) /\ SubSeq(t, 1, Len(s)) = s

\* C23: within one approve the steps come in a fixed order: the update to in
\* progress, then the audit record of the approval, then the job trigger;
\* status polls only after an execution id was received; and the feedback
\* card is the last message, after the final ticket update and the final
\* audit record.
C23_ApproveStepOrder ==
    \A h \in InFlight :
        Approving(h) =>
            LET steps == SelectSeq(h.log, IsApproveStep) IN
            /\ \E order \in ApproveOrders : IsPrefix(steps, order)
            /\ Last(steps) \in FeedbackCards => Last(h.log) = Last(steps)

\* An approve has returned after a succeeded job: in-progress update, approval
\* record, trigger, polls, closing update, outcome record and feedback card.
C23_Witness ==
    \E h \in InFlight :
        Approving(h) /\ h.pc = "done" /\ Has(h.log, "sn_closed")
            /\ Has(h.log, "card_feedback_success")

\* C24: every path through approve and reject leaves the bot in user mode:
\* when the operation returns, the admin-mode flag is false and the stored
\* pending-approval data is empty.
C24_ReturnsInUserMode ==
    \A h \in InFlight :
        h.action \in {"admin_approve", "admin_reject"} /\ h.pc = "done"
            /\ ~Has(h.log, "msg_error") =>
                ~is_admin_mode /\ pending_approval = NoIncident

\* C25: when polling ends without a determinate job status, the request is
\* treated as failed consistently: the ticket is set to cancelled and the
\* feedback card carries status failed.
C25_UndeterminedCancelsTicket ==
    \A h \in InFlight :
        Approving(h) /\ h.final_status = "error" =>
            Has(h.log, "sn_cancelled") /\ Has(h.log, "card_feedback_failed")

\* C26: a ticket is set to closed only by an approve whose trigger returned an
\* execution id and whose status poll reported succeeded; on every other path
\* no closed update is issued.
C26_ClosedOnlyOnSucceeded ==
    \A h \in InFlight :
        Has(h.log, "sn_closed") =>
            /\ Approving(h)
            /\ Before(h.log, "exec_id", "sn_closed")
            /\ h.final_status = "succeeded"

\* Handlers have returned on the other paths, and one is closing its ticket.
C26_Witness ==
    /\ \E h \in InFlight : Has(h.log, "sn_closed")
    /\ \E i \in Incidents : calls[i]["reject"] > 0 \/ calls[i]["card_feedback_failed"] > 0

\* C27: wherever control is between handler steps, the admin-mode flag is true
\* if and only if the stored pending-approval data is non-empty.
C27_FlagIffPendingData == is_admin_mode <=> pending_approval # NoIncident

\* Admin mode was reset by a reject and has been entered again since.
C27_Witness ==
    /\ is_admin_mode
    /\ turns = EmptyBag
    /\ \E i \in Incidents : calls[i]["reject"] > 0 /\ pending_approval # i

\* C28: an install submission that lacks an application name or a version
\* makes no external call and changes no state: the handler only asks the
\* user to select a version and returns.
C28_IncompleteInstallDoesNothing ==
    [][\A h \in BagToSet(turns') :
          h \notin InFlight /\ Has(h.log, "install_incomplete") =>
              /\ h.log = <<"install_incomplete", "msg_select_version">>
              /\ h.pc = "done" /\ h.incident_number = NoIncident
              /\ UNCHANGED <<is_admin_mode, pending_approval, calls, created, submissions>>]_vars

\* Such a submission has come in while a request is pending approval.
C28_Witness ==
    /\ \E h \in InFlight : Has(h.log, "install_incomplete")
    /\ is_admin_mode

\* The handler at h has returned because a step of it raised: the preparation
\* of the incident data, the job trigger, or a status query.
Raised(h) ==
    /\ h.pc = "done"
    /\ \/ Installing(h) /\ Has(h.log, "install") /\ ~Has(h.log, "sn_create")
       \/ Approving(h) /\ TriggerFailed(h) /\ ~Has(h.log, "msg_trigger_failed")
       \/ Approving(h) /\ Has(h.log, "exec_id") /\ h.final_status = ""

\* C29: an exception raised at a step of a card-submission handler does not
\* leave the handler: it is caught, the remaining steps are skipped, and
\* exactly one generic error message is sent, as the handler's last message;
\* no handler sends that message otherwise.
C29_ExceptionCaughtOnce ==
    \A h \in InFlight :
        /\ Raised(h) => Last(h.log) = "msg_error" /\ Count(h.log, "msg_error") = 1
        /\ Has(h.log, "msg_error") => Raised(h)

\* A status query of an approve has raised.
C29_Witness ==
    \E h \in InFlight : Raised(h) /\ Has(h.log, "rd_poll")

====
